---------------------------- MODULE Spec2Model ----------------------------
(***************************************************************************)
(* Provider configuration resolution of the agent: LLMSettingsReader       *)
(* (agent/src/lib/llm/settings/NemoTypes.ts).  The reader answers two      *)
(* asynchronous queries, read() ("readDefaultProvider") and                *)
(* readAllProviders(), from the host preference API chrome.browserOS       *)
(* .getPref or, when that API is missing, from chrome.storage.local, and   *)
(* falls back to a built-in provider or, in development mode, to a mock.   *)
(*                                                                         *)
(* JavaScript values are tagged records: [t |-> "undefined"],              *)
(* [t |-> "number", n |-> 5], [t |-> "string", ...], [t |-> "object",      *)
(* obj |-> r].  A string value is identified by what JSON.parse makes of   *)
(* it.  Absent optional string fields of a provider hold NoValue.          *)
(* Temperatures are counted in tenths (7 is 0.7).                          *)
(***************************************************************************)
EXTENDS Integers, Sequences, FiniteSets, TLC

VARIABLES api, prefValue, storageValue, env, devMode, mockProvider, call,
          lastLog,
          \* whether the provider the last read() handed out is the override
          \* object itself, and what happened before this state (for the
          \* properties only)
          shared, history,
          \* the side-panel Header: its local configuration and error, and the
          \* last configuration whose save message was sent
          providersConfig, providersError, saved

vars == <<api, prefValue, storageValue, env, devMode, mockProvider, call,
          lastLog, shared, history, providersConfig, providersError, saved>>

\* what the reader's own steps do not touch unless a specification follows it
beside == <<shared, history, providersConfig, providersError, saved>>

----------------------------------------------------------------------------
(* Bounds of the model *)

\* longest providers array of a stored configuration
MaxProviders == 2
\* new Date() is an input of every step that reads it, drawn from 0..MaxClock
MaxClock == 1
\* stored temperatures run from -0.1 to MaxTenths tenths
MaxTenths == 30

----------------------------------------------------------------------------
(* JavaScript values *)

NoValue == "undefined"
Undefined == [t |-> "undefined"]
Num(n) == [t |-> "number", n |-> n]
Obj(r) == [t |-> "object", obj |-> r]
\* the string JSON.stringify(v)
StrJSON(v) == [t |-> "string", json |-> v]
\* a string that is no JSON text
StrBad == [t |-> "string", bad |-> TRUE]
\* the empty string
StrEmpty == [t |-> "string", empty |-> TRUE]

\* the JavaScript null (mockProvider before any setMockProvider, a failed find)
NULL == [t |-> "null"]

\* !v of JavaScript, for the values a store can hold
Falsy(v) == v = Undefined \/ v = StrEmpty

ISO == <<"T0", "T1", "T2", "T3", "T4">>
\* new Date().toISOString() at clock t
toISOString(t) == ISO[t + 1]

Clock == 0..MaxClock

----------------------------------------------------------------------------
(* NemoTypes.ts: the schemas *)

NemoProviderTypeSchema ==
  {"nemo", "openai", "openai_compatible", "anthropic", "google_gemini",
   "ollama", "openrouter", "custom"}

\* the key both stores are asked for; the reader imports this object under
\* the name NEMO_PREFERENCE_KEYS
BROWSEROS_PREFERENCE_KEYS == [PROVIDERS |-> "nemo.providers"]

\* the number NaN
NaN == [t |-> "number", nan |-> TRUE]
\* the decimal text of n tenths: StrNum(15) is "1.5", StrNum(30) is "3"
StrNum(n) == [t |-> "string", tenths |-> n]

\* parseFloat(s) of a string, in tenths; NaN for a text that starts no numeral
parseFloat(s) == IF "tenths" \in DOMAIN s THEN Num(s.tenths) ELSE NaN

\* parseInt(s, 10) of a string, in units: the digits before the decimal point
parseInt10(s) ==
  IF "tenths" \in DOMAIN s
  THEN IF s.tenths >= 0 THEN Num(s.tenths \div 10)
       ELSE Num(0 - ((0 - s.tenths) \div 10))
  ELSE NaN

\* contextWindow: z.union([z.number(), z.string()]).transform(parseInt of a
\* string).optional(); nothing looks at the transform's result
ContextWindowParse(v) ==
  CASE v = Undefined -> [ok |-> TRUE, val |-> Undefined]
    [] v.t = "number" -> [ok |-> "n" \in DOMAIN v, val |-> v]
    [] v.t = "string" -> [ok |-> TRUE, val |-> parseInt10(v)]
    [] OTHER -> [ok |-> FALSE]

\* a temperature schema that clamps into [0, 2] instead of failing
TemperatureParseClamp(v) ==
  CASE v = Undefined -> [ok |-> TRUE, val |-> Undefined]
    [] v.t \in {"number", "string"} ->
         LET x == IF v.t = "string" THEN parseFloat(v) ELSE v
         IN  IF "n" \in DOMAIN x
             THEN [ok |-> TRUE,
                   val |-> Num(IF x.n < 0 THEN 0 ELSE IF x.n > 20 THEN 20 ELSE x.n)]
             ELSE [ok |-> FALSE]
    [] OTHER -> [ok |-> FALSE]

\* temperature: z.union([z.number(), z.string()]).transform(parseFloat of a
\* string).pipe(z.number().min(0).max(2)).optional(); z.number() rejects NaN
TemperatureParse(v) ==
  CASE v = Undefined -> [ok |-> TRUE, val |-> Undefined]
    [] v.t \in {"number", "string"} ->
         LET x == IF v.t = "string" THEN parseFloat(v) ELSE v
         IN  IF "n" \in DOMAIN x /\ x.n >= 0 /\ x.n <= 20
             THEN [ok |-> TRUE, val |-> x]
             ELSE [ok |-> FALSE]
    [] OTHER -> [ok |-> FALSE]

\* ModelConfigSchema.parse(mc) for an optional modelConfig: the parsed value
\* carries the transformed numbers
ModelConfigSchemaParse(mc) ==
  IF mc = Undefined THEN [ok |-> TRUE, val |-> Undefined]
  ELSE IF mc.t # "object" THEN [ok |-> FALSE]
  ELSE LET cw == ContextWindowParse(mc.obj.contextWindow)
           tp == TemperatureParse(mc.obj.temperature)
       IN  IF cw.ok /\ tp.ok
           THEN [ok |-> TRUE,
                 val |-> Obj([contextWindow |-> cw.val, temperature |-> tp.val])]
           ELSE [ok |-> FALSE]

\* ModelConfigSchema: an absent modelConfig is valid; a temperature must lie
\* in [0, 2] once numeric
ModelConfigSchemaOk(mc) == ModelConfigSchemaParse(mc).ok

\* a provider schema that takes any string for a type
NemoProviderSchemaOkAnyType(p) ==
  /\ p.id # NoValue
  /\ p.name # NoValue
  /\ p.isDefault \in BOOLEAN
  /\ p.isBuiltIn \in BOOLEAN
  /\ p.createdAt # NoValue
  /\ p.updatedAt # NoValue
  /\ ModelConfigSchemaOk(p.modelConfig)

\* NemoProviderSchema: required strings and booleans present, type in the enum
NemoProviderSchemaOk(p) ==
  /\ p.id # NoValue
  /\ p.name # NoValue
  /\ p.type \in NemoProviderTypeSchema
  /\ p.isDefault \in BOOLEAN
  /\ p.isBuiltIn \in BOOLEAN
  /\ p.createdAt # NoValue
  /\ p.updatedAt # NoValue
  /\ ModelConfigSchemaOk(p.modelConfig)

\* what NemoProviderSchema makes of a provider it accepts
NemoProviderSchemaOutput(p) ==
  [p EXCEPT !.modelConfig = ModelConfigSchemaParse(p.modelConfig).val]

\* NemoProvidersConfigSchema.parse(v): [ok |-> TRUE, config |-> c] or a throw
NemoProvidersConfigSchemaParse(v) ==
  IF /\ v.t = "object"
     /\ "defaultProviderId" \in DOMAIN v.obj
     /\ "providers" \in DOMAIN v.obj
     /\ \A i \in 1..Len(v.obj.providers) :
          NemoProviderSchemaOk(v.obj.providers[i])
  THEN [ok |-> TRUE,
        config |-> [defaultProviderId |-> v.obj.defaultProviderId,
                    providers |->
                      [i \in 1..Len(v.obj.providers) |->
                         NemoProviderSchemaOutput(v.obj.providers[i])]]]
  ELSE [ok |-> FALSE]

\* JSON.parse(v): String(v) is parsed, so only a JSON text succeeds
JSONparse(v) ==
  IF v.t = "string" /\ "json" \in DOMAIN v
  THEN [ok |-> TRUE, val |-> v.json]
  ELSE [ok |-> FALSE]


----------------------------------------------------------------------------
(* LLMSettingsReader: the pure parts *)

\* what the private readers hand to read() and readAllProviders()
Value(v) == [kind |-> "value", v |-> v]
Null == [kind |-> "null"]
Threw == [kind |-> "threw"]

\* how a public operation's promise settles
Fulfilled(v) == [kind |-> "fulfilled", value |-> v]
Rejected == [kind |-> "rejected"]
Unsettled == [kind |-> "none"]

DEFAULT_OPENAI_MODEL == "gpt-4o"
DEFAULT_ANTHROPIC_MODEL == "claude-3-5-sonnet-latest"
DEFAULT_GEMINI_MODEL == "gemini-2.0-flash"
DEFAULT_OLLAMA_MODEL == "qwen3:4b"
DEFAULT_OLLAMA_BASE_URL == "http://localhost:11434"

\* a built-in provider that is not flagged built-in
getDefaultNemoProviderNotBuiltIn(t) ==
  [id |-> "nemo", name |-> "Nemo", type |-> "nemo",
   isDefault |-> TRUE, isBuiltIn |-> FALSE,
   baseUrl |-> NoValue, apiKey |-> NoValue, modelId |-> NoValue,
   capabilities |-> Undefined, modelConfig |-> Undefined,
   createdAt |-> toISOString(t), updatedAt |-> toISOString(t)]

\* getDefaultNemoProvider() called at clock t
getDefaultNemoProvider(t) ==
  [id |-> "nemo", name |-> "Nemo", type |-> "nemo",
   isDefault |-> TRUE, isBuiltIn |-> TRUE,
   baseUrl |-> NoValue, apiKey |-> NoValue, modelId |-> NoValue,
   capabilities |-> Undefined, modelConfig |-> Undefined,
   createdAt |-> toISOString(t), updatedAt |-> toISOString(t)]

\* x || y for strings, "" standing for an unset or empty variable
OrElse(x, y) == IF x = "" THEN y ELSE x

\* one entry of the mockProviders table built at clock t
MockEntry(id, name, type, baseUrl, apiKey, modelId, images, window, t) ==
  [id |-> id, name |-> name, type |-> type,
   isDefault |-> TRUE, isBuiltIn |-> FALSE,
   baseUrl |-> baseUrl, apiKey |-> apiKey, modelId |-> modelId,
   capabilities |-> Obj([supportsImages |-> images]),
   modelConfig |-> Obj([contextWindow |-> Num(window), temperature |-> Num(7)]),
   createdAt |-> toISOString(t), updatedAt |-> toISOString(t)]

\* the keys of the mockProviders table
MockCatalogKeys == {"nemo", "openai", "anthropic", "gemini", "ollama"}

\* mockProviders[k] for k in MockCatalogKeys
mockProviders(k, e, t) ==
  CASE k = "nemo" -> getDefaultNemoProvider(t)
    [] k = "openai" ->
         MockEntry("mock_openai", "Mock OpenAI", "openai",
                   "https://api.openai.com/v1",
                   OrElse(e.OPENAI_API_KEY, "mock-key"),
                   DEFAULT_OPENAI_MODEL, TRUE, 128000, t)
    [] k = "anthropic" ->
         MockEntry("mock_anthropic", "Mock Anthropic", "anthropic",
                   "https://api.anthropic.com",
                   OrElse(e.ANTHROPIC_API_KEY, "mock-key"),
                   DEFAULT_ANTHROPIC_MODEL, TRUE, 200000, t)
    [] k = "gemini" ->
         MockEntry("mock_gemini", "Mock Gemini", "google_gemini",
                   NoValue,
                   OrElse(e.GOOGLE_API_KEY, "mock-key"),
                   DEFAULT_GEMINI_MODEL, TRUE, 1000000, t)
    [] k = "ollama" ->
         MockEntry("mock_ollama", "Mock Ollama", "ollama",
                   DEFAULT_OLLAMA_BASE_URL, NoValue,
                   DEFAULT_OLLAMA_MODEL, FALSE, 4096, t)

\* names every object literal inherits from Object.prototype
ObjectPrototypeKeys ==
  {"constructor", "toString", "valueOf", "hasOwnProperty", "__proto__"}

\* mockProviders[k] for such a name: a truthy value that is no provider
InheritedMember == [t |-> "function"]

\* a mock factory that lets the type hint win over the override
getMockProviderHintFirst(mock, e, t) ==
  LET mockType == OrElse(e.MOCK_PROVIDER_TYPE, "nemo")
  IN  IF e.MOCK_PROVIDER_TYPE \in MockCatalogKeys
      THEN mockProviders(mockType, e, t)
      ELSE IF mock # NULL THEN mock ELSE getDefaultNemoProvider(t)

\* getMockProvider() with override mock and environment e, at clock t:
\* this.mockProvider if set, else mockProviders[mockType] || the default
getMockProvider(mock, e, t) ==
  IF mock # NULL
  THEN mock
  ELSE LET mockType == OrElse(e.MOCK_PROVIDER_TYPE, "nemo")
       IN  IF mockType \in MockCatalogKeys
           THEN mockProviders(mockType, e, t)
           ELSE IF mockType \in ObjectPrototypeKeys
                THEN InheritedMember
                ELSE getDefaultNemoProvider(t)

\* { ...base, ...partial }
Spread(base, partial) ==
  [f \in DOMAIN base |-> IF f \in DOMAIN partial THEN partial[f] ELSE base[f]]

\* a find that settles for the first provider when no id matches
FindFirstOnMiss(providers, id) ==
  LET hits == {i \in 1..Len(providers) : providers[i].id = id}
  IN  IF hits = {}
      THEN IF Len(providers) = 0 THEN NULL ELSE providers[1]
      ELSE providers[CHOOSE i \in hits : \A j \in hits : i <= j]

\* providers.find(p => p.id === id): the first match, NULL for undefined
Find(providers, id) ==
  LET hits == {i \in 1..Len(providers) : providers[i].id = id}
  IN  IF hits = {} THEN NULL
      ELSE providers[CHOOSE i \in hits : \A j \in hits : i <= j]

\* config.providers.map(p => ({...p, isDefault: p.id === config.defaultProviderId}))
NormalizeIsDefault(config) ==
  [config EXCEPT !.providers =
     [i \in 1..Len(config.providers) |->
        [config.providers[i] EXCEPT
           !.isDefault = (config.providers[i].id = config.defaultProviderId)]]]

\* NemoProvidersConfigSchema.parse(typeof raw === 'string' ? JSON.parse(raw) : raw):
\* [ok |-> TRUE, config |-> c], or [ok |-> FALSE] when either step throws
ParseStored(raw) ==
  IF raw.t = "string"
  THEN LET js == JSONparse(raw)
       IN  IF js.ok THEN NemoProvidersConfigSchemaParse(js.val) ELSE [ok |-> FALSE]
  ELSE NemoProvidersConfigSchemaParse(raw)

\* NemoProvidersConfigSchema.parse(JSON.parse(pref.value))
ParsePref(value) ==
  LET js == JSONparse(value)
  IN  IF js.ok THEN NemoProvidersConfigSchemaParse(js.val) ELSE [ok |-> FALSE]

\* readFromNemo handing out the mock without asking isMockLLMSettings()
readFromNemoStorageUngated(raw, dev, mock, e, t) ==
  IF Falsy(raw)
  THEN Value(getMockProvider(mock, e, t))
  ELSE LET parsed == ParseStored(raw)
       IN  IF parsed.ok
           THEN LET def == Find(parsed.config.providers,
                                parsed.config.defaultProviderId)
                IN  IF def = NULL THEN Null ELSE Value(def)
           ELSE Value(getMockProvider(mock, e, t))

\* readFromNemo whose catch clause hands out the mock in every mode
readFromNemoStorageCatchMock(raw, dev, mock, e, t) ==
  IF Falsy(raw)
  THEN IF dev THEN Value(getMockProvider(mock, e, t)) ELSE Null
  ELSE LET parsed == ParseStored(raw)
       IN  IF parsed.ok
           THEN LET def == Find(parsed.config.providers,
                                parsed.config.defaultProviderId)
                IN  IF def = NULL THEN Null ELSE Value(def)
           ELSE Value(getMockProvider(mock, e, t))

\* readFromNemo, chrome.storage.local path, from the storage callback on
readFromNemoStorage(raw, dev, mock, e, t) ==
  IF Falsy(raw)
  THEN IF dev THEN Value(getMockProvider(mock, e, t)) ELSE Null
  ELSE LET parsed == ParseStored(raw)
       IN  IF parsed.ok
           THEN LET def == Find(parsed.config.providers,
                                parsed.config.defaultProviderId)
                IN  IF def = NULL THEN Null ELSE Value(def)
           ELSE IF dev THEN Value(getMockProvider(mock, e, t)) ELSE Null

\* a getPref callback that returns the default provider as it was persisted
readFromNemoPrefNoNormalize(value, lastError) ==
  IF lastError THEN Null
  ELSE IF Falsy(value) THEN Null
  ELSE LET parsed == ParsePref(value)
       IN  IF parsed.ok
           THEN LET defaultProvider == Find(parsed.config.providers,
                                            parsed.config.defaultProviderId)
                IN  IF defaultProvider = NULL THEN Null
                    ELSE Value(defaultProvider)
           ELSE Null

\* readFromNemo, the getPref callback
readFromNemoPref(value, lastError) ==
  IF lastError THEN Null
  ELSE IF Falsy(value) THEN Null
  ELSE LET parsed == ParsePref(value)
       IN  IF parsed.ok
           THEN LET config == NormalizeIsDefault(parsed.config)
                    defaultProvider == Find(config.providers,
                                            config.defaultProviderId)
                IN  IF defaultProvider = NULL THEN Null
                    ELSE Value(defaultProvider)
           ELSE Null

\* readProvidersConfig, chrome.storage.local path, from the storage callback on
readProvidersConfigStorage(raw) ==
  IF Falsy(raw) THEN Null
  ELSE LET parsed == ParseStored(raw)
       IN  IF parsed.ok THEN Value(parsed.config) ELSE Null

\* readProvidersConfig, the getPref callback
readProvidersConfigPref(value, lastError) ==
  IF lastError \/ Falsy(value) THEN Null
  ELSE LET parsed == ParsePref(value)
       IN  IF parsed.ok THEN Value(NormalizeIsDefault(parsed.config)) ELSE Null

\* read() without its try/catch: a throw of readFromNemo rejects the promise
readSettleNoCatch(inner, t) ==
  IF inner.kind = "value" THEN Fulfilled(inner.v)
  ELSE IF inner.kind = "threw" THEN Rejected
  ELSE Fulfilled(getDefaultNemoProvider(t))

\* read(): try { provider = await readFromNemo(); if (provider) return provider }
\* catch { log }; return getDefaultNemoProvider()
readSettle(inner, t) ==
  IF inner.kind = "value"
  THEN Fulfilled(inner.v)
  ELSE Fulfilled(getDefaultNemoProvider(t))

\* readAllProviders() whose fallback names a default that is not in the list
readAllProvidersSettleWrongId(inner, t) ==
  IF inner.kind = "value"
  THEN Fulfilled(inner.v)
  ELSE Fulfilled([defaultProviderId |-> "default",
                  providers |-> <<getDefaultNemoProvider(t)>>])

\* readAllProviders(): the same shape around readProvidersConfig()
readAllProvidersSettle(inner, t) ==
  IF inner.kind = "value"
  THEN Fulfilled(inner.v)
  ELSE Fulfilled([defaultProviderId |-> "nemo",
                  providers |-> <<getDefaultNemoProvider(t)>>])

----------------------------------------------------------------------------
(* The host: stores, capabilities, environment *)

Ids == {"a", "b"}

\* a provider as the settings UI persists it
StoredProvider(id, isDefault, type) ==
  [id |-> id, name |-> id, type |-> type,
   isDefault |-> isDefault, isBuiltIn |-> FALSE,
   baseUrl |-> NoValue, apiKey |-> "sk-stored", modelId |-> NoValue,
   capabilities |-> Undefined, modelConfig |-> Undefined,
   createdAt |-> "T-stored", updatedAt |-> "T-stored"]

ProviderPool ==
  {StoredProvider(i, d, "openai") : i \in Ids, d \in BOOLEAN}
    \cup {StoredProvider("b", FALSE, "bogus")}

ProviderSeqs == UNION {[1..n -> ProviderPool] : n \in 0..MaxProviders}

\* objects of the persisted layout; a bogus type makes one schema-invalid
StoredConfigs ==
  {[defaultProviderId |-> d, providers |-> ps] : d \in Ids, ps \in ProviderSeqs}

\* what a store can hold under the key: nothing, "", a non-JSON string, the
\* JSON text of a number, the JSON text of a configuration, a configuration
StoreValues ==
  {Undefined, StrEmpty, StrBad, StrJSON(Num(5))}
    \cup {StrJSON(Obj(c)) : c \in StoredConfigs}
    \cup {Obj(c) : c \in StoredConfigs}

\* a valid configuration, default "a", persisted flags the wrong way round
SampleConfig ==
  [defaultProviderId |-> "a",
   providers |-> <<StoredProvider("a", FALSE, "openai"),
                   StoredProvider("b", TRUE, "openai")>>]

\* a valid configuration whose defaultProviderId names no provider
DanglingConfig ==
  [defaultProviderId |-> "a",
   providers |-> <<StoredProvider("b", TRUE, "openai")>>]

\* a configuration with a provider of an unknown type
BogusTypeConfig ==
  [defaultProviderId |-> "a",
   providers |-> <<StoredProvider("a", TRUE, "openai"),
                   StoredProvider("b", FALSE, "bogus")>>]

\* pref.value is a string for a JSON preference; one object value stands for
\* the values of any other type (JSON.parse of it throws)
PrefValues ==
  {Undefined, StrEmpty, StrBad, StrJSON(Num(5))}
    \cup {StrJSON(Obj(c)) : c \in StoredConfigs}
    \cup {Obj(SampleConfig)}

\* one store value of each kind the reader tells apart
SampleValues ==
  {Undefined, StrEmpty, StrBad, StrJSON(Num(5)),
   StrJSON(Obj(SampleConfig)), Obj(SampleConfig),
   StrJSON(Obj(DanglingConfig)), Obj(BogusTypeConfig)}

\* what a stored modelConfig.temperature can be: absent, null, a number, the
\* text of a number, a text that is no numeral, the empty text
Temperatures ==
  {Undefined, NULL, StrBad, StrEmpty}
    \cup {Num(n) : n \in -1..MaxTenths}
    \cup {StrNum(n) : n \in -1..MaxTenths}

\* what a stored modelConfig.contextWindow can be: absent, null, 4096, "4096",
\* "12.7", a text that is no numeral, the empty text
ContextWindows ==
  {Undefined, NULL, Num(4096), StrNum(40960), StrNum(127), StrBad, StrEmpty}

\* a persisted provider with a modelConfig
TunedProvider(cw, tp) ==
  [StoredProvider("a", TRUE, "openai") EXCEPT
     !.modelConfig = Obj([contextWindow |-> cw, temperature |-> tp])]

\* configurations of one provider with a modelConfig
TunedConfigs ==
  {[defaultProviderId |-> "a", providers |-> <<TunedProvider(cw, tp)>>] :
     cw \in ContextWindows, tp \in Temperatures}

\* a preference holding such a configuration as its JSON text, or nothing
TunedTexts == {Undefined} \cup {StrJSON(Obj(c)) : c \in TunedConfigs}

\* chrome.storage.local holding it as JSON text or as an object, or nothing
TunedValues == TunedTexts \cup {Obj(c) : c \in TunedConfigs}

\* process.env
Env(type, openaiKey) ==
  [MOCK_PROVIDER_TYPE |-> type, OPENAI_API_KEY |-> openaiKey,
   ANTHROPIC_API_KEY |-> "", GOOGLE_API_KEY |-> ""]

Envs == {Env("", ""), Env("openai", ""), Env("openai", "sk-env"),
         Env("bogus", "")}

\* arguments of setMockProvider
Partials == {[name |-> "Test", type |-> "openai"],
             [apiKey |-> "sk-mock", baseUrl |-> "http://mock"]}

\* the type hints: every provider type, none, the catalog key "gemini", a
\* name of no entry, a name inherited from Object.prototype
MockHints == NemoProviderTypeSchema \cup {"", "gemini", "bogus", "constructor"}

MockEnvs == {Env(h, "") : h \in MockHints}

\* arguments of setMockProvider: those of Partials and one with a temperature
\* of 5
MockPartials ==
  Partials \cup
    {[modelConfig |-> Obj([contextWindow |-> Undefined, temperature |-> Num(50)])]}

\* the host the reader runs on:
\*   "pref"     chrome.browserOS.getPref exists (and chrome.storage.local)
\*   "storage"  no chrome.browserOS.getPref, chrome.storage.local exists
\*   "none"     neither exists
\*   "nochrome" the global chrome is not declared (a ReferenceError on use)
Apis == {"pref", "storage", "none", "nochrome"}

IdleCall ==
  [op |-> "none", pc |-> "idle", cb |-> "none", lastError |-> FALSE,
   outcome |-> Unsettled]

\* a host: without chrome.browserOS there is no preference to hold a value,
\* without chrome there is no store at all; beside a preference API the
\* fallback store is empty or holds the sample configuration
Host(prefValues, storageValues) ==
  /\ api \in Apis
  /\ prefValue \in prefValues
  /\ storageValue \in storageValues
  /\ api = "pref" => storageValue \in {Undefined, StrJSON(Obj(SampleConfig))}
  /\ api # "pref" => prefValue = Undefined
  /\ api \in {"none", "nochrome"} => storageValue = Undefined
  /\ env \in Envs

\* a fresh process on a host whose stores hold sample values
\* nothing handed out, nothing happened yet
Untracked ==
  /\ shared = FALSE
  /\ history = [fellBack |-> FALSE, wrote |-> FALSE, raced |-> FALSE,
                before |-> NULL]

\* the Header is not mounted
HeaderClosed ==
  /\ providersConfig = NULL
  /\ providersError = NULL
  /\ saved = NULL

Init ==
  /\ Host(SampleValues, SampleValues)
  /\ Untracked /\ HeaderClosed
  /\ devMode \in BOOLEAN
  /\ mockProvider = NULL
  /\ call = IdleCall
  /\ lastLog = "none"

\* a process on a host whose stores hold any value of StoreValues, its
\* override unset or set by an earlier setMockProvider
InitStores ==
  /\ Host(PrefValues, StoreValues)
  /\ Untracked /\ HeaderClosed
  /\ devMode \in BOOLEAN
  /\ mockProvider \in
       {NULL, Spread(getDefaultNemoProvider(0), [name |-> "Test", type |-> "openai"])}
  /\ call = IdleCall
  /\ lastLog = "none"

----------------------------------------------------------------------------
(* LLMSettingsReader: the operations *)

\* isMockLLMSettings()
isMockLLMSettings == devMode

\* the development-mode switch is thrown
SetDevMode(b) ==
  /\ devMode # b
  /\ devMode' = b
  /\ UNCHANGED <<api, prefValue, storageValue, env, mockProvider, call,
                 lastLog>>

\* setMockProvider(provider) whose guard warns but does not return
setMockProviderNoReturn(provider, now) ==
  /\ mockProvider' = Spread(getDefaultNemoProvider(now), provider)
  /\ lastLog' = "Mock provider set"
  /\ UNCHANGED <<api, prefValue, storageValue, env, devMode, call>>

\* a setter that spreads its argument over the override already set
setMockProviderMerge(provider, now) ==
  /\ isMockLLMSettings
  /\ mockProvider' = Spread(IF mockProvider = NULL
                            THEN getDefaultNemoProvider(now)
                            ELSE mockProvider, provider)
  /\ lastLog' = "Mock provider set"
  /\ UNCHANGED <<api, prefValue, storageValue, env, devMode, call>>

\* setMockProvider(provider), new Date() reading now
setMockProvider(provider, now) ==
  IF ~isMockLLMSettings
  THEN /\ lastLog' = "setMockProvider is only available in development mode"
       /\ UNCHANGED <<api, prefValue, storageValue, env, devMode,
                      mockProvider, call>>
  ELSE /\ mockProvider' = Spread(getDefaultNemoProvider(now), provider)
       /\ lastLog' = "Mock provider set"
       /\ UNCHANGED <<api, prefValue, storageValue, env, devMode, call>>

\* which callback a call of readFromNemo / readProvidersConfig leaves with
\* the host: chrome.storage?.local?.get(...) registers nothing when
\* chrome.storage.local is missing
Registered ==
  CASE api = "pref" -> "getPref"
    [] api = "storage" -> "storage.get"
    [] api = "none" -> "none"
    [] api = "nochrome" -> "rejection"

\* an operation that answers a repeated call from the answer it gave before
IssueCached(op) ==
  /\ call.pc \in {"idle", "settled"}
  /\ IF call.pc = "settled" /\ call.op = op
     THEN UNCHANGED <<call, lastLog>>
     ELSE /\ call' = [op |-> op, pc |-> "pending", cb |-> Registered,
                      lastError |-> FALSE, outcome |-> Unsettled]
          /\ lastLog' = IF op = "read"
                        THEN "Reading provider settings from Nemo preferences"
                        ELSE lastLog
  /\ UNCHANGED <<api, prefValue, storageValue, env, devMode, mockProvider>>

\* a caller issues read() or readAllProviders(); the call runs up to its await
Issue(op) ==
  /\ call.pc \in {"idle", "settled"}
  /\ call' = [op |-> op, pc |-> "pending", cb |-> Registered,
              lastError |-> FALSE, outcome |-> Unsettled]
  /\ lastLog' = IF op = "read"
                THEN "Reading provider settings from Nemo preferences"
                ELSE lastLog
  /\ UNCHANGED <<api, prefValue, storageValue, env, devMode, mockProvider>>

\* the result of the public operation once the private reader has answered
Settle(op, inner, t) ==
  IF op = "read" THEN readSettle(inner, t) ELSE readAllProvidersSettle(inner, t)

\* the last diagnostic of the public operation
SettleLog(op, inner, log) ==
  IF op = "read"
  THEN IF inner.kind = "value" THEN "Provider loaded"
       ELSE "Using default Nemo provider"
  ELSE IF inner.kind = "value" THEN "Loaded providers"
       ELSE IF inner.kind = "threw" THEN "Failed to read providers"
       ELSE log

\* the host invokes the getPref callback, chrome.runtime.lastError set or not
\* (call.lastError keeps what the callback saw)
GetPrefCallback(lastError, now) ==
  /\ call.pc = "pending" /\ call.cb = "getPref"
  /\ LET inner == IF call.op = "read"
                  THEN readFromNemoPref(prefValue, lastError)
                  ELSE readProvidersConfigPref(prefValue, lastError)
     IN  /\ call' = [call EXCEPT
                       !.pc = "settled", !.cb = "none",
                       !.lastError = lastError,
                       !.outcome = Settle(call.op, inner, now)]
         /\ lastLog' = SettleLog(call.op, inner, lastLog)
  /\ UNCHANGED <<api, prefValue, storageValue, env, devMode, mockProvider>>

\* a storage callback that writes the value it parsed back to the store
StorageCallbackWriteBack(now) ==
  /\ call.pc = "pending" /\ call.cb = "storage.get"
  /\ LET inner == IF call.op = "read"
                  THEN readFromNemoStorage(storageValue, isMockLLMSettings,
                                           mockProvider, env, now)
                  ELSE readProvidersConfigStorage(storageValue)
     IN  /\ call' = [call EXCEPT
                       !.pc = "settled", !.cb = "none",
                       !.outcome = Settle(call.op, inner, now)]
         /\ lastLog' = SettleLog(call.op, inner, lastLog)
         /\ storageValue' = IF call.op = "readAllProviders" /\ inner.kind = "value"
                            THEN Obj(inner.v) ELSE storageValue
  /\ UNCHANGED <<api, prefValue, env, devMode, mockProvider>>

\* the host invokes the chrome.storage.local.get callback
StorageCallback(now) ==
  /\ call.pc = "pending" /\ call.cb = "storage.get"
  /\ LET inner == IF call.op = "read"
                  THEN readFromNemoStorage(storageValue, isMockLLMSettings,
                                           mockProvider, env, now)
                  ELSE readProvidersConfigStorage(storageValue)
     IN  /\ call' = [call EXCEPT
                       !.pc = "settled", !.cb = "none",
                       !.outcome = Settle(call.op, inner, now)]
         /\ lastLog' = SettleLog(call.op, inner, lastLog)
  /\ UNCHANGED <<api, prefValue, storageValue, env, devMode, mockProvider>>

\* chrome is not declared: the private reader's promise is rejected with the
\* ReferenceError and the public operation's catch clause runs
RejectionHandled(now) ==
  /\ call.pc = "pending" /\ call.cb = "rejection"
  /\ call' = [call EXCEPT
                !.pc = "settled", !.cb = "none",
                !.outcome = Settle(call.op, Threw, now)]
  /\ lastLog' = SettleLog(call.op, Threw, lastLog)
  /\ UNCHANGED <<api, prefValue, storageValue, env, devMode, mockProvider>>

Next ==
  \/ \E b \in BOOLEAN : SetDevMode(b) /\ UNCHANGED beside
  \/ \E p \in Partials, t \in Clock : setMockProvider(p, t) /\ UNCHANGED beside
  \/ \E op \in {"read", "readAllProviders"} : Issue(op) /\ UNCHANGED beside
  \/ \E le \in BOOLEAN, t \in Clock :
       GetPrefCallback(le, t) /\ UNCHANGED beside
  \/ \E t \in Clock : StorageCallback(t) /\ UNCHANGED beside
  \/ \E t \in Clock : RejectionHandled(t) /\ UNCHANGED beside

Spec == Init /\ [][Next]_vars

\* the reads alone, over every store value
NextReads ==
  \/ \E op \in {"read", "readAllProviders"} : Issue(op) /\ UNCHANGED beside
  \/ \E le \in BOOLEAN, t \in Clock :
       GetPrefCallback(le, t) /\ UNCHANGED beside
  \/ \E t \in Clock : StorageCallback(t) /\ UNCHANGED beside
  \/ \E t \in Clock : RejectionHandled(t) /\ UNCHANGED beside

SpecStores == InitStores /\ [][NextReads]_vars

\* read() handed out this.mockProvider itself, not a copy: the storage
\* callback took the mock path while an override was set
ReturnsOverride ==
  /\ call.op = "read"
  /\ isMockLLMSettings
  /\ Falsy(storageValue) \/ ~ParseStored(storageValue).ok
  /\ mockProvider # NULL

\* the caller of read() assigns to a field of the provider it was handed; the
\* override changes with it when it is the same object
CallerMutates(f, v) ==
  /\ call.pc = "settled" /\ call.op = "read"
  /\ f \in DOMAIN call.outcome.value
  /\ call.outcome.value[f] # v
  /\ call' = [call EXCEPT !.outcome.value[f] = v]
  /\ mockProvider' = IF shared THEN [mockProvider EXCEPT ![f] = v]
                     ELSE mockProvider
  /\ UNCHANGED <<api, prefValue, storageValue, env, devMode, lastLog>>

headerVars == <<providersConfig, providersError, saved>>

\* a development process without chrome.browserOS.getPref, every type hint
InitMock ==
  /\ api = "storage"
  /\ prefValue = Undefined
  /\ storageValue \in {Undefined, StrBad, StrJSON(Obj(SampleConfig))}
  /\ env \in MockEnvs
  /\ devMode = TRUE
  /\ mockProvider = NULL
  /\ call = IdleCall
  /\ lastLog = "none"
  /\ Untracked /\ HeaderClosed

\* the mock subsystem at work: overrides set while reads are in flight, and
\* callers that write to what they were handed
NextMock ==
  \/ \E b \in BOOLEAN : SetDevMode(b) /\ UNCHANGED beside
  \/ \E p \in MockPartials, t \in Clock :
       /\ setMockProvider(p, t)
       /\ shared' = IF devMode THEN FALSE ELSE shared
       /\ history' = IF devMode /\ call.pc = "pending"
                     THEN [history EXCEPT !.raced = TRUE, !.before = mockProvider]
                     ELSE history
       /\ UNCHANGED headerVars
  \/ /\ Issue("read")
     /\ shared' = FALSE
     /\ history' = [history EXCEPT !.raced = FALSE, !.before = NULL]
     /\ UNCHANGED headerVars
  \/ \E t \in Clock :
       /\ StorageCallback(t)
       /\ shared' = ReturnsOverride
       /\ UNCHANGED <<history, providersConfig, providersError, saved>>
  \/ /\ CallerMutates("apiKey", "sk-caller")
     /\ UNCHANGED beside

SpecMock == InitMock /\ [][NextMock]_vars

\* the host persists v under the providers key of the store the reader
\* consults (setPref of chrome.browserOS, or chrome.storage.local)
HostWrites(v) ==
  /\ api \in {"pref", "storage"}
  /\ IF api = "pref"
     THEN prefValue' = v /\ prefValue # v /\ UNCHANGED storageValue
     ELSE storageValue' = v /\ storageValue # v /\ UNCHANGED prefValue
  /\ UNCHANGED <<api, env, devMode, mockProvider, call, lastLog>>

\* the call that has settled came back with a built-in fallback
FellBack ==
  /\ call.pc = "settled"
  /\ IF call.op = "read"
     THEN call.outcome.value.id = "nemo"
     ELSE call.outcome.value.defaultProviderId = "nemo"

\* a host whose stores are empty at first, development mode off
InitStoreChange ==
  /\ api \in {"pref", "storage"}
  /\ prefValue = Undefined
  /\ storageValue = Undefined
  /\ env = Env("", "")
  /\ devMode = FALSE
  /\ mockProvider = NULL
  /\ call = IdleCall
  /\ lastLog = "none"
  /\ Untracked /\ HeaderClosed

\* reads of a store that the host writes between and during them
NextStoreChange ==
  \/ \E op \in {"read", "readAllProviders"} :
       /\ Issue(op)
       /\ history' = [history EXCEPT !.fellBack = @ \/ FellBack,
                                     !.wrote = FALSE]
       /\ UNCHANGED <<shared, providersConfig, providersError, saved>>
  \/ \E le \in BOOLEAN, t \in Clock :
       /\ GetPrefCallback(le, t)
       /\ history' = [history EXCEPT !.wrote = FALSE]
       /\ UNCHANGED <<shared, providersConfig, providersError, saved>>
  \/ \E t \in Clock :
       /\ StorageCallback(t)
       /\ history' = [history EXCEPT !.wrote = FALSE]
       /\ UNCHANGED <<shared, providersConfig, providersError, saved>>
  \/ \E v \in SampleValues :
       /\ HostWrites(v)
       /\ history' = [history EXCEPT !.wrote = TRUE]
       /\ UNCHANGED <<shared, providersConfig, providersError, saved>>

SpecStoreChange == InitStoreChange /\ [][NextStoreChange]_vars

----------------------------------------------------------------------------
(* The side-panel Header: the default-provider dropdown *)

readerVars == <<api, prefValue, storageValue, env, devMode, mockProvider,
                call, lastLog>>

\* a configuration whose first provider has a contextWindow that is no numeral
UnparsableWindowConfig ==
  [defaultProviderId |-> "a",
   providers |-> <<TunedProvider(StrBad, Undefined),
                   StoredProvider("b", FALSE, "openai")>>]

\* payload.data.providersConfig of a WORKFLOW_STATUS success message
HeaderPayloads ==
  {Obj(c) : c \in StoredConfigs} \cup {Obj(UnparsableWindowConfig)}

\* a value of providersError: the message of an error
ErrorText(m) == [t |-> "string", text |-> m]

ZodErrorMessage == ErrorText("ZodError")

\* the WORKFLOW_STATUS handler for a success payload with a providersConfig
handler(payload) ==
  /\ LET parsed == NemoProvidersConfigSchemaParse(payload)
     IN  IF parsed.ok
         THEN /\ providersConfig' = parsed.config
              /\ UNCHANGED providersError
         ELSE /\ providersError' = ZodErrorMessage
              /\ UNCHANGED providersConfig
  /\ UNCHANGED saved
  /\ UNCHANGED readerVars

\* nextConfig of the select's onChange for the option nextId
nextConfig(nextId) ==
  [defaultProviderId |-> nextId,
   providers |-> [i \in 1..Len(providersConfig.providers) |->
                    [providersConfig.providers[i] EXCEPT
                       !.isDefault = (providersConfig.providers[i].id = nextId)]]]

\* the user picks option nextId of the select, which is rendered only when
\* providersConfig is set; ok is what sendMessage returns
onChange(nextId, ok) ==
  /\ providersConfig # NULL
  /\ \E i \in 1..Len(providersConfig.providers) :
       providersConfig.providers[i].id = nextId
  /\ nextId # providersConfig.defaultProviderId
  /\ IF NemoProvidersConfigSchemaParse(Obj(nextConfig(nextId))).ok
     THEN /\ providersConfig' = nextConfig(nextId)
          /\ IF ok
             THEN saved' = nextConfig(nextId) /\ UNCHANGED providersError
             ELSE /\ providersError' = ErrorText("Failed to send save message")
                  /\ UNCHANGED saved
     ELSE /\ providersError' = ZodErrorMessage
          /\ UNCHANGED <<providersConfig, saved>>
  /\ UNCHANGED readerVars

\* the Header mounted in a side panel, nothing loaded yet
InitHeader ==
  /\ api = "pref"
  /\ prefValue = Undefined
  /\ storageValue = Undefined
  /\ env = Env("", "")
  /\ devMode = FALSE
  /\ mockProvider = NULL
  /\ call = IdleCall
  /\ lastLog = "none"
  /\ Untracked /\ HeaderClosed

NextHeader ==
  \/ \E payload \in HeaderPayloads :
       handler(payload) /\ UNCHANGED <<shared, history>>
  \/ \E nextId \in Ids, ok \in BOOLEAN :
       onChange(nextId, ok) /\ UNCHANGED <<shared, history>>

SpecHeader == InitHeader /\ [][NextHeader]_vars

\* a process outside development mode on a host whose stores hold a
\* configuration with a modelConfig
InitModelConfig ==
  /\ Host(TunedTexts, TunedValues)
  /\ Untracked /\ HeaderClosed
  /\ env = Env("", "")
  /\ devMode = FALSE
  /\ mockProvider = NULL
  /\ call = IdleCall
  /\ lastLog = "none"

\* the reads over every stored modelConfig
SpecModelConfig == InitModelConfig /\ [][NextReads]_vars

----------------------------------------------------------------------------
(* Properties *)

Settled(op) == call.pc = "settled" /\ call.op = op

\* the step in which a call of op settles
Settles(op) == call.pc = "pending" /\ call.op = op /\ call'.pc = "settled"

\* the store this host makes the reader consult, and what the schema makes of it
SourceValue == IF api = "pref" THEN prefValue ELSE storageValue
SourceParse == IF api = "pref" THEN ParsePref(prefValue) ELSE ParseStored(storageValue)

\* the read of the consulted source supplies no configuration: the source is
\* missing, the host reported an error, no value, no JSON, a schema violation
ReadFailed ==
  \/ api \in {"none", "nochrome"}
  \/ call.lastError
  \/ Falsy(SourceValue)
  \/ ~SourceParse.ok

Timestamps == {toISOString(t) : t \in Clock}

\* p is the Default Provider Factory's provider, synthesized at some moment:
\* built-in, default, no credentials, no base URL, no model
IsBuiltInDefault(p) ==
  /\ p.id = "nemo" /\ p.name = "Nemo" /\ p.type = "nemo"
  /\ p.isDefault /\ p.isBuiltIn
  /\ p.baseUrl = NoValue /\ p.apiKey = NoValue /\ p.modelId = NoValue
  /\ p.capabilities = Undefined /\ p.modelConfig = Undefined
  /\ p.createdAt \in Timestamps /\ p.updatedAt = p.createdAt

\* C1: no exception crosses read() or readAllProviders(): a call that settles
\* settles fulfilled, never rejected, and on a host with a store to ask the
\* reader always leaves a continuation that will settle it.
C1_NoExceptionCrosses ==
  /\ call.pc = "settled" => call.outcome.kind = "fulfilled"
  /\ call.pc = "pending" /\ api # "none" => call.cb # "none"

\* a ReferenceError of the private reader was absorbed into a fallback value
C1_Witness ==
  /\ api = "nochrome"
  /\ Settled("read")
  /\ call.outcome.kind = "fulfilled"
  /\ IsBuiltInDefault(call.outcome.value)

\* C2: every call of read() or readAllProviders() eventually settles, given
\* that every callback the reader registers is invoked: so every pending call
\* has a callback (or a promise reaction) registered.
C2_EveryCallSettles == call.pc = "pending" => call.cb # "none"

\* exactly one provider of c is the default, and it is the one c names
ExactlyOneDefault(c) ==
  /\ Cardinality({i \in 1..Len(c.providers) : c.providers[i].isDefault}) = 1
  /\ \A i \in 1..Len(c.providers) :
       c.providers[i].isDefault <=> c.providers[i].id = c.defaultProviderId

\* defaultProviderId names exactly one provider of c
Resolvable(c) ==
  Cardinality({i \in 1..Len(c.providers) :
                 c.providers[i].id = c.defaultProviderId}) = 1

\* C3: for a schema-valid persisted configuration (here: one whose
\* defaultProviderId names exactly one provider), read from either store,
\* readAllProviders() returns a configuration with exactly one isDefault
\* provider, the one defaultProviderId names.
C3_ExactlyOneDefault ==
  (/\ Settled("readAllProviders")
   /\ ~ReadFailed
   /\ Resolvable(SourceParse.config))
  => /\ call.outcome.kind = "fulfilled"
     /\ ExactlyOneDefault(call.outcome.value)

\* the consulted store yields no valid default provider: not found, a host
\* error, or a validator failure
NoValidDefault(lastError) ==
  \/ lastError
  \/ Falsy(SourceValue)
  \/ ~SourceParse.ok

\* C4: when the store read for read() yields no valid default provider, on the
\* primary or the fallback source, the call returns the mock provider if
\* development mode is on and an override is set, and the built-in provider
\* if development mode is off.
C4_MockOrDefaultOnFailure ==
  [][(/\ Settles("read")
      /\ api \in {"pref", "storage"}
      /\ NoValidDefault(call'.lastError))
     => /\ call'.outcome.kind = "fulfilled"
        /\ devMode /\ mockProvider # NULL
             => call'.outcome.value = mockProvider
        /\ ~devMode => IsBuiltInDefault(call'.outcome.value)]_vars

\* what a call of op returns on this host with development mode off, no mock
\* override and an empty environment
NoMockEnv == Env("", "")

NoMockOutcome(op, lastError, now) ==
  CASE api = "pref" ->
         Settle(op, IF op = "read"
                    THEN readFromNemoPref(prefValue, lastError)
                    ELSE readProvidersConfigPref(prefValue, lastError), now)
    [] api = "storage" ->
         Settle(op, IF op = "read"
                    THEN readFromNemoStorage(storageValue, FALSE, NULL,
                                             NoMockEnv, now)
                    ELSE readProvidersConfigStorage(storageValue), now)
    [] OTHER -> Settle(op, Threw, now)

\* C5: with development mode off when a call reads it, what read() and
\* readAllProviders() return is what they return with no override and an
\* empty environment: it does not depend on the override or on the mock
\* environment variables.
C5_NoMockOutsideDevMode ==
  [][\A op \in {"read", "readAllProviders"} :
       (Settles(op) /\ ~devMode)
       => \E t \in Clock :
            call'.outcome = NoMockOutcome(op, call'.lastError, t)]_vars

\* an override set in development mode, the switch thrown afterwards, an empty
\* fallback store: the built-in provider comes back
C5_Witness ==
  /\ Settled("read")
  /\ ~devMode
  /\ mockProvider # NULL
  /\ env.MOCK_PROVIDER_TYPE = "openai"
  /\ api = "storage" /\ Falsy(storageValue)
  /\ IsBuiltInDefault(call.outcome.value)

RefusedLog == "setMockProvider is only available in development mode"

\* C6: outside development mode no step, setMockProvider included, changes
\* the override; the refused call changes nothing but the diagnostic.
C6_SetMockRefusedOutsideDevMode ==
  [][/\ ~devMode => mockProvider' = mockProvider
     /\ (lastLog' = RefusedLog /\ lastLog # RefusedLog)
        => UNCHANGED <<api, prefValue, storageValue, env, devMode,
                       mockProvider, call>>]_vars

\* an override set in development mode survived a refused setMockProvider
C6_Witness ==
  /\ lastLog = RefusedLog
  /\ ~devMode
  /\ mockProvider # NULL
  /\ mockProvider.apiKey = "sk-mock"

TestPartial == [name |-> "Test", type |-> "openai"]

\* the override is the one setMockProvider({name: "Test", type: "openai"}) left
TestMockSet ==
  \E t \in Clock :
    mockProvider = Spread(getDefaultNemoProvider(t), TestPartial)

\* name "Test", type "openai", every other field the built-in default's
IsTestMock(p) ==
  /\ p.name = "Test" /\ p.type = "openai"
  /\ p.id = "nemo" /\ p.isDefault /\ p.isBuiltIn
  /\ p.apiKey = NoValue /\ p.baseUrl = NoValue /\ p.modelId = NoValue
  /\ p.capabilities = Undefined /\ p.modelConfig = Undefined
  /\ p.createdAt \in Timestamps /\ p.updatedAt \in Timestamps

\* C7: in development mode, once
\* setMockProvider({name: "Test", type: "openai"}) has run, read() returns
\* that provider (name "Test", type "openai", the rest the built-in
\* default's) when the store read yields no valid default provider.
C7_TestMockReturned ==
  [][(/\ Settles("read") /\ devMode /\ TestMockSet
      /\ api \in {"pref", "storage"}
      /\ NoValidDefault(call'.lastError))
     => /\ call'.outcome.kind = "fulfilled"
        /\ IsTestMock(call'.outcome.value)]_vars

\* the read goes to chrome.storage.local and finds nothing it can parse
StorageReadFails ==
  /\ api = "storage"
  /\ Falsy(storageValue) \/ ~ParseStored(storageValue).ok

\* where the code does what C7 says: chrome.browserOS.getPref is missing and
\* chrome.storage.local holds no value, no JSON or no schema-valid
\* configuration
TestMockReturnedOnStorageFailure ==
  [][(Settles("read") /\ devMode /\ TestMockSet /\ StorageReadFails)
     => /\ call'.outcome.kind = "fulfilled"
        /\ IsTestMock(call'.outcome.value)]_vars

\* the Test override came back from a read of a store holding no JSON
TestMockReturnedWitness ==
  /\ Settled("read")
  /\ devMode /\ TestMockSet
  /\ api = "storage" /\ storageValue = StrBad
  /\ IsTestMock(call.outcome.value)

\* the configuration of the built-in provider alone
IsBuiltInOnlyConfig(c) ==
  /\ c.defaultProviderId = "nemo"
  /\ Len(c.providers) = 1
  /\ IsBuiltInDefault(c.providers[1])
  /\ c.providers[1].id = c.defaultProviderId
  /\ c.providers[1].isBuiltIn /\ c.providers[1].isDefault

\* C8: when the full-configuration read fails, readAllProviders() returns the
\* configuration of the built-in provider alone, in development mode too.
C8_BuiltInOnlyOnFailure ==
  (Settled("readAllProviders") /\ ReadFailed)
  => /\ call.outcome.kind = "fulfilled"
     /\ IsBuiltInOnlyConfig(call.outcome.value)

\* a schema violation in the fallback store, in development mode with an
\* override set
C8_Witness ==
  /\ Settled("readAllProviders")
  /\ devMode /\ mockProvider # NULL
  /\ api = "storage" /\ ~Falsy(storageValue) /\ storageValue # StrBad
  /\ ~ParseStored(storageValue).ok
  /\ IsBuiltInOnlyConfig(call.outcome.value)

\* the ids of a configuration's providers, in order
ProviderIds(c) == [i \in 1..Len(c.providers) |-> c.providers[i].id]

\* C9: when the primary source reports an error or yields no value, the
\* fallback store is consulted, and a valid configuration it holds is what
\* readAllProviders() returns.
C9_FallbackConsulted ==
  (/\ Settled("readAllProviders")
   /\ api = "pref"
   /\ call.lastError \/ Falsy(prefValue)
   /\ ParseStored(storageValue).ok)
  => /\ call.outcome.kind = "fulfilled"
     /\ call.outcome.value.defaultProviderId =
          ParseStored(storageValue).config.defaultProviderId
     /\ ProviderIds(call.outcome.value) =
          ProviderIds(ParseStored(storageValue).config)

\* neither store holds a value
StoresEmpty == Falsy(prefValue) /\ Falsy(storageValue)

NoCredentials(p) == p.isBuiltIn /\ p.apiKey = NoValue /\ p.baseUrl = NoValue

\* C10 as stated: with both stores empty or absent, read() returns a built-in
\* provider without apiKey and baseUrl, whatever the development-mode flag,
\* the override and the type hint.
C10_BuiltInWhenEmpty ==
  (Settled("read") /\ StoresEmpty)
  => /\ call.outcome.kind = "fulfilled"
     /\ NoCredentials(call.outcome.value)

\* C10 amended: with both stores empty or absent and development mode off
\* when the call reads it, read() returns a built-in provider without apiKey
\* and baseUrl, whatever the override and the type hint.
C10_BuiltInWhenEmptyOutsideDevMode ==
  [][(Settles("read") /\ StoresEmpty /\ ~devMode)
     => /\ call'.outcome.kind = "fulfilled"
        /\ NoCredentials(call'.outcome.value)]_vars

\* an empty fallback store read outside development mode, an override with
\* credentials set and the hint naming a catalog entry with a key
C10_Witness ==
  /\ Settled("read")
  /\ api = "storage" /\ storageValue = Undefined
  /\ ~devMode
  /\ mockProvider # NULL /\ mockProvider.apiKey = "sk-mock"
  /\ env.MOCK_PROVIDER_TYPE = "openai"
  /\ NoCredentials(call.outcome.value)

\* the read goes to chrome.storage.local, which holds a string that is no JSON
MalformedInFallback == api = "storage" /\ storageValue = StrBad

\* C11 as stated: a string that is no JSON in the fallback store makes read()
\* return the built-in default provider, in every mode.
C11_MalformedJSONGivesDefault ==
  (Settled("read") /\ MalformedInFallback)
  => /\ call.outcome.kind = "fulfilled"
     /\ IsBuiltInDefault(call.outcome.value)

\* C11 amended: a string that is no JSON in the fallback store makes read()
\* return the built-in default provider when development mode is off as the
\* call reads it, whatever the override and the environment.
C11_MalformedJSONGivesDefaultOutsideDevMode ==
  [][(Settles("read") /\ MalformedInFallback /\ ~devMode)
     => /\ call'.outcome.kind = "fulfilled"
        /\ IsBuiltInDefault(call'.outcome.value)]_vars

\* the malformed string was read outside development mode with an override
\* left from development mode, and the built-in default came back
C11_Witness ==
  /\ Settled("read")
  /\ MalformedInFallback
  /\ ~devMode
  /\ mockProvider # NULL /\ mockProvider.name = "Test"
  /\ IsBuiltInDefault(call.outcome.value)

\* the consulted store delivers a schema-valid configuration
StoredValid ==
  /\ api \in {"pref", "storage"}
  /\ ~call.lastError
  /\ ~Falsy(SourceValue)
  /\ SourceParse.ok

\* the positions of c's providers whose id is c.defaultProviderId
DefaultPositions(c) ==
  {i \in 1..Len(c.providers) : c.providers[i].id = c.defaultProviderId}

\* C12: when the schema-valid stored configuration names a default that no
\* provider has, read() returns the built-in provider, from the preference
\* API and from chrome.storage.local alike.
C12_DanglingDefaultGivesBuiltIn ==
  (/\ Settled("read")
   /\ StoredValid
   /\ DefaultPositions(SourceParse.config) = {})
  => /\ call.outcome.kind = "fulfilled"
     /\ IsBuiltInDefault(call.outcome.value)

\* a dangling default in chrome.storage.local, read in development mode with
\* an override set: still the built-in provider
C12_Witness ==
  /\ Settled("read")
  /\ api = "storage" /\ StoredValid
  /\ Len(SourceParse.config.providers) > 0
  /\ DefaultPositions(SourceParse.config) = {}
  /\ devMode /\ mockProvider # NULL
  /\ IsBuiltInDefault(call.outcome.value)

\* C13: the provider read() returns from a stored configuration has
\* isDefault = true, whatever flag was persisted, from either store.
C13_ReturnedDefaultIsDefault ==
  (/\ Settled("read")
   /\ StoredValid
   /\ DefaultPositions(SourceParse.config) # {})
  => /\ call.outcome.kind = "fulfilled"
     /\ call.outcome.value.id = SourceParse.config.defaultProviderId
     /\ call.outcome.value.isDefault

\* C14: every configuration readAllProviders() returns has exactly one
\* provider with isBuiltIn = true.
C14_ExactlyOneBuiltIn ==
  Settled("readAllProviders")
  => /\ call.outcome.kind = "fulfilled"
     /\ Cardinality({i \in 1..Len(call.outcome.value.providers) :
                       call.outcome.value.providers[i].isBuiltIn}) = 1

\* C15: no configuration readAllProviders() returns has two providers with
\* the same id.
C15_UniqueIds ==
  Settled("readAllProviders")
  => /\ call.outcome.kind = "fulfilled"
     /\ \A i, j \in 1..Len(call.outcome.value.providers) :
          call.outcome.value.providers[i].id = call.outcome.value.providers[j].id
          => i = j

\* the consulted store delivers a configuration of one provider with a
\* modelConfig, and the host reports no error
StoredTuned ==
  /\ api \in {"pref", "storage"}
  /\ ~call.lastError
  /\ SourceValue \in (IF api = "pref" THEN TunedTexts ELSE TunedValues)
  /\ SourceValue # Undefined

\* the stored provider's modelConfig as it was persisted
StoredModelConfig ==
  LET c == IF SourceValue.t = "string" THEN SourceValue.json.obj
           ELSE SourceValue.obj
  IN  c.providers[1].modelConfig.obj

\* v is a number or the text of a number
IsNumeral(v) == v.t \in {"number", "string"} /\ DOMAIN v \cap {"n", "tenths"} # {}

\* the number a number or a numeral denotes, in tenths
Denotes(v) == IF v.t = "number" THEN v.n ELSE v.tenths

\* the modelConfig of the one provider of a returned configuration
ReturnedModelConfig == call.outcome.value.providers[1].modelConfig

\* C16: a stored temperature that is a number or the text of a number is
\* accepted as that number when it lies in [0, 2] and makes the whole
\* configuration fail validation otherwise; it is never clamped.
C16_TemperatureInRange ==
  (/\ Settled("readAllProviders")
   /\ StoredTuned
   /\ IsNumeral(StoredModelConfig.temperature)
   /\ StoredModelConfig.contextWindow \in {Undefined, Num(4096), StrNum(40960)})
  => IF /\ Denotes(StoredModelConfig.temperature) >= 0
        /\ Denotes(StoredModelConfig.temperature) <= 20
     THEN /\ call.outcome.value.defaultProviderId = "a"
          /\ call.outcome.value.providers[1].id = "a"
          /\ ReturnedModelConfig # Undefined
          /\ ReturnedModelConfig.obj.temperature =
               Num(Denotes(StoredModelConfig.temperature))
     ELSE IsBuiltInOnlyConfig(call.outcome.value)

\* the text "1.5" came back as the number 1.5
C16_Witness ==
  /\ Settled("readAllProviders")
  /\ StoredTuned
  /\ StoredModelConfig.temperature = StrNum(15)
  /\ call.outcome.value.providers[1].id = "a"
  /\ ReturnedModelConfig.obj.temperature = Num(15)

\* C17: no configuration the validator accepts, and readAllProviders()
\* returns, carries NaN as contextWindow or temperature.
C17_NoNaNAccepted ==
  Settled("readAllProviders")
  => \A i \in 1..Len(call.outcome.value.providers) :
       LET mc == call.outcome.value.providers[i].modelConfig
       IN  mc # Undefined
           => /\ mc.obj.contextWindow # NaN
              /\ mc.obj.temperature # NaN

\* JSON.stringify of a number: NaN is written as null
StringifyNumber(x) == IF x = NaN THEN NULL ELSE x

\* JSON.stringify(c) of a configuration
JSONstringify(c) ==
  StrJSON(Obj(
    [c EXCEPT !.providers =
       [i \in 1..Len(c.providers) |->
          [c.providers[i] EXCEPT !.modelConfig =
             IF @ = Undefined THEN @
             ELSE Obj([contextWindow |-> StringifyNumber(@.obj.contextWindow),
                       temperature |-> StringifyNumber(@.obj.temperature)])]]]))

\* C19: what the validator made of an accepted payload, serialized and
\* validated again, is accepted and is the same value.
C19_ValidationRoundTrip ==
  (Settled("readAllProviders") /\ StoredTuned /\ SourceParse.ok)
  => LET again == ParseStored(JSONstringify(call.outcome.value))
     IN  /\ again.ok
         /\ again.config = call.outcome.value

\* the consulted store delivers an object: as JSON text, or, in
\* chrome.storage.local, as the object itself
HoldsObject ==
  /\ api \in {"pref", "storage"}
  /\ ~call.lastError
  /\ \/ /\ SourceValue.t = "string"
        /\ "json" \in DOMAIN SourceValue
        /\ SourceValue.json.t = "object"
     \/ api = "storage" /\ SourceValue.t = "object"

\* that object, before any validation
RawConfig ==
  IF SourceValue.t = "string" THEN SourceValue.json.obj ELSE SourceValue.obj

\* some provider of the stored configuration has a type outside the enumeration
HasUnknownType ==
  \E i \in 1..Len(RawConfig.providers) :
    RawConfig.providers[i].type \notin NemoProviderTypeSchema

\* p is what read() falls back to: the built-in provider or, in development
\* mode, the mock provider
IsReadFallback(p) ==
  \/ IsBuiltInDefault(p)
  \/ devMode /\ \E t \in Clock : p = getMockProvider(mockProvider, env, t)

\* C18: a stored configuration with a provider of unknown type is rejected as
\* a whole: readAllProviders() returns the built-in-only configuration and
\* read() its fallback, also when the default provider itself is valid.
C18_UnknownTypeRejectsAll ==
  (HoldsObject /\ HasUnknownType)
  => /\ Settled("readAllProviders") => IsBuiltInOnlyConfig(call.outcome.value)
     /\ Settled("read") => IsReadFallback(call.outcome.value)

\* the default provider "a" is valid, provider "b" has an unknown type, and
\* read() through the preference API returned the built-in provider
C18_Witness ==
  /\ Settled("read")
  /\ api = "pref" /\ HoldsObject /\ HasUnknownType
  /\ RawConfig.defaultProviderId = "a"
  /\ Len(RawConfig.providers) = 2
  /\ RawConfig.providers[1].id = "a"
  /\ RawConfig.providers[1].type \in NemoProviderTypeSchema
  /\ IsBuiltInDefault(call.outcome.value)

\* C20: no step of a read, the one that issues it or the one that settles it,
\* changes what the preference store or chrome.storage.local holds.
C20_ReadsWriteNothing ==
  [][call' # call
     => prefValue' = prefValue /\ storageValue' = storageValue]_vars

\* both operations have been answered from a store that holds a configuration
C20_Witness ==
  /\ Settled("readAllProviders")
  /\ api = "storage"
  /\ storageValue = StrJSON(Obj(SampleConfig))
  /\ call.outcome.value.defaultProviderId = "a"
  /\ Len(call.outcome.value.providers) = 2

\* C21: once set, the override is never cleared by any step, and every
\* request a read makes to the mock factory while it is set returns the
\* override, whatever the environment's type hint.
C21_OverridePersistsAndWins ==
  [][/\ mockProvider # NULL => mockProvider' # NULL
     /\ (Settles("read") /\ devMode /\ StorageReadFails /\ mockProvider # NULL)
        => /\ call'.outcome.kind = "fulfilled"
           /\ call'.outcome.value = mockProvider]_vars

\* the hint names the catalog's anthropic entry and the override came back
C21_Witness ==
  /\ Settled("read")
  /\ devMode /\ StorageReadFails
  /\ env.MOCK_PROVIDER_TYPE = "anthropic"
  /\ mockProvider # NULL
  /\ call.outcome.value = mockProvider
  /\ call.outcome.value.type = "openai"

\* C22: with no override set, a read answered by the mock factory returns a
\* provider of type t for every provider type t given as the type hint, and
\* the built-in default for a hint that names no catalog entry.
C22_OneEntryPerType ==
  [][(Settles("read") /\ devMode /\ StorageReadFails /\ mockProvider = NULL)
     => LET hint == env.MOCK_PROVIDER_TYPE
            p == call'.outcome.value
        IN  /\ call'.outcome.kind = "fulfilled"
            /\ hint \in NemoProviderTypeSchema
                 => "type" \in DOMAIN p /\ p.type = hint
            /\ hint \notin MockCatalogKeys \cup {""}
                 => "id" \in DOMAIN p /\ IsBuiltInDefault(p)]_vars

\* m is the built-in default of some moment overlaid by the fields of p alone
OverlaysDefault(m, p) ==
  \E t \in Clock :
    /\ DOMAIN m = DOMAIN getDefaultNemoProvider(t)
    /\ \A f \in DOMAIN m :
         m[f] = IF f \in DOMAIN p THEN p[f] ELSE getDefaultNemoProvider(t)[f]

\* C23: however setMockProvider calls interleave with a read in flight, each
\* setMockProvider leaves the built-in default overlaid by its own argument
\* only, and a read on the mock path returns the override as it stands when
\* the store callback runs: one complete override, the last one written.
C23_LastWriterWins ==
  [][/\ (mockProvider' # mockProvider /\ call' = call)
        => \E p \in MockPartials : OverlaysDefault(mockProvider', p)
     /\ (Settles("read") /\ devMode /\ StorageReadFails /\ mockProvider # NULL)
        => /\ call'.outcome.value = mockProvider
           /\ history.raced
                => \E p \in MockPartials :
                     OverlaysDefault(call'.outcome.value, p)]_vars

\* an override was replaced while the read was in flight, and the read
\* returned the replacement
C23_Witness ==
  /\ Settled("read")
  /\ history.raced
  /\ history.before # NULL
  /\ mockProvider.name = "Test"
  /\ history.before.name # "Test"
  /\ shared
  /\ call.outcome.value = mockProvider

\* C25: every provider read() returns, whichever path produced it, satisfies
\* NemoProviderSchema: required fields present, a type of the enumeration, a
\* present temperature within [0, 2].
C25_ReturnedProviderSatisfiesSchema ==
  Settled("read")
  => /\ call.outcome.kind = "fulfilled"
     /\ "id" \in DOMAIN call.outcome.value
     /\ NemoProviderSchemaOk(call.outcome.value)

\* C28: the override is written by setMockProvider alone: no step of a read
\* and no caller writing to a provider a read handed out changes it.
C28_OnlySetMockWritesOverride ==
  [][mockProvider' # mockProvider
     => call' = call /\ lastLog' = "Mock provider set"]_vars

\* the settled call's answer is the configuration the consulted store holds
AnswersFromStore ==
  LET c == SourceParse.config
      v == call.outcome.value
  IN  IF call.op = "readAllProviders"
      THEN /\ v.defaultProviderId = c.defaultProviderId
           /\ Len(v.providers) = Len(c.providers)
           /\ \A i \in 1..Len(c.providers) : v.providers[i].id = c.providers[i].id
      ELSE Resolvable(c) => v.id = c.defaultProviderId

\* C24: no retry and no cache: a pending call has one callback with the one
\* source it consults and a settled call none; a settled call stays as it
\* settled; and the answer of a call is taken from the store as the call
\* itself found it, so a call after a valid configuration was persisted
\* returns that configuration, whatever earlier calls returned.
C24_NoRetryNoCache ==
  [][/\ call.pc = "pending" => call.cb = Registered
     /\ call.pc = "settled" => call.cb = "none"
     /\ (call.pc = "settled" /\ call'.pc = "settled") => call' = call
     /\ (/\ call.pc = "settled" /\ ~history.wrote
         /\ ~call.lastError /\ ~Falsy(SourceValue) /\ SourceParse.ok)
        => AnswersFromStore]_vars

\* an earlier call fell back on the empty store; the configuration persisted
\* since then came back from this one
C24_Witness ==
  /\ history.fellBack
  /\ ~history.wrote
  /\ Settled("read")
  /\ SourceValue = StrJSON(Obj(SampleConfig))
  /\ call.outcome.value.id = "a"

\* what readAllProviders() answers on this host, the callback seeing lastError
\* and the clock reading t
AllProvidersAnswer(lastError, t) ==
  Settle("readAllProviders",
         CASE api = "pref" -> readProvidersConfigPref(prefValue, lastError)
           [] api = "storage" -> readProvidersConfigStorage(storageValue)
           [] OTHER -> Threw,
         t).value

SameApartFromTimestamps(p, q) ==
  [p EXCEPT !.createdAt = NoValue, !.updatedAt = NoValue]
    = [q EXCEPT !.createdAt = NoValue, !.updatedAt = NoValue]

\* p is, timestamps apart, the provider of readAllProviders()'s answer that
\* the answer's defaultProviderId names
AgreesWithAllProviders(p, lastError) ==
  \E t \in Clock :
    LET c == AllProvidersAnswer(lastError, t)
    IN  \E i \in 1..Len(c.providers) :
          /\ c.providers[i].id = c.defaultProviderId
          /\ SameApartFromTimestamps(c.providers[i], p)

\* C26 as stated: in every host state the provider read() returns is,
\* timestamps apart, the provider that readAllProviders() names the default.
C26_QueriesAgree ==
  [][Settles("read")
     => AgreesWithAllProviders(call'.outcome.value, call'.lastError)]_vars

\* the consulted store holds a valid configuration whose defaultProviderId
\* names none of its providers
DanglingDefault(lastError) ==
  /\ api \in {"pref", "storage"}
  /\ ~NoValidDefault(lastError)
  /\ \A i \in 1..Len(SourceParse.config.providers) :
       SourceParse.config.providers[i].id # SourceParse.config.defaultProviderId

\* C26: outside development mode, and unless the stored defaultProviderId
\* names no stored provider, the provider read() returns is, timestamps
\* apart, the provider that readAllProviders() names the default in the same
\* host state.
C26_QueriesAgreeOutsideDevMode ==
  [][(Settles("read") /\ ~devMode /\ ~DanglingDefault(call'.lastError))
     => AgreesWithAllProviders(call'.outcome.value, call'.lastError)]_vars

\* the preference holds "a" with isDefault false, and read() returned it with
\* the flag set, as readAllProviders() does
C26_Witness ==
  /\ Settled("read")
  /\ ~devMode /\ ~call.lastError
  /\ api = "pref" /\ prefValue = StrJSON(Obj(SampleConfig))
  /\ call.outcome.value.id = "a"
  /\ call.outcome.value.isDefault

\* C27: when the stored configuration is schema-valid and its
\* defaultProviderId matches no provider, readAllProviders() returns the
\* stored providers in their order, each with isDefault false, under the
\* persisted defaultProviderId, and not the built-in fallback.
C27_DanglingZeroesFlags ==
  (Settled("readAllProviders") /\ DanglingDefault(call.lastError))
  => LET c == SourceParse.config
         v == call.outcome.value
     IN  /\ call.outcome.kind = "fulfilled"
         /\ v.defaultProviderId = c.defaultProviderId
         /\ Len(v.providers) = Len(c.providers)
         /\ \A i \in 1..Len(c.providers) :
              v.providers[i] = [c.providers[i] EXCEPT !.isDefault = FALSE]

\* the step is a selection of option x in the dropdown
Selects(x) == \E ok \in BOOLEAN : onChange(x, ok)

\* C29: selecting provider id X yields a configuration with defaultProviderId
\* X, isDefault true exactly for the providers of id X and every other field
\* kept; the local configuration is replaced by it only if it passes the
\* schema; and once replaced, the local configuration is the last one whose
\* save message was sent successfully.
C29_SelectionKeepsLocalAndSavedEqual ==
  [][\A x \in Ids :
       (Selects(x) /\ providersConfig' # providersConfig)
       => /\ providersConfig'.defaultProviderId = x
          /\ Len(providersConfig'.providers) = Len(providersConfig.providers)
          /\ \A i \in 1..Len(providersConfig.providers) :
               providersConfig'.providers[i] =
                 [providersConfig.providers[i] EXCEPT
                    !.isDefault = (providersConfig.providers[i].id = x)]
          /\ NemoProvidersConfigSchemaParse(Obj(providersConfig')).ok
          /\ saved' = providersConfig']_vars

============================================================================
